---------------------------- MODULE Spec2Model ----------------------------
(***************************************************************************)
(* Model of the invoice converter: the token classifiers and the row       *)
(* scanner (parse_pdf_tokens), the totals extractor (extract_total_usd)    *)
(* and the batch driver (convert_pdfs_to_excel) of web.py.                 *)
(*                                                                         *)
(* Conventions.                                                            *)
(*  - A Python str is a sequence of one-character strings, so that the     *)
(*    regular expressions and strip() are computed character by character. *)
(*  - Token positions are 0-based as in the source: At(tokens, k) is       *)
(*    tokens[k].                                                           *)
(*  - An optional value (Python None or a value) is <<>> or <<v>>.         *)
(*  - Money is held in whole cents.                                        *)
(***************************************************************************)
EXTENDS Integers, Sequences, FiniteSets, TLC

(***************************************************************************)
(* Optional values                                                         *)
(***************************************************************************)
None == <<>>

Some(v) == <<v>>

Val(o) == o[1]

Min(a, b) == IF a <= b THEN a ELSE b

At(tokens, k) == tokens[k + 1]

Lowest(S) == CHOOSE x \in S : \A y \in S : x <= y

Highest(S) == CHOOSE x \in S : \A y \in S : x >= y

(***************************************************************************)
(* Characters                                                              *)
(***************************************************************************)
DigitChars == <<"0", "1", "2", "3", "4", "5", "6", "7", "8", "9">>

IsDigit(c) == \E d \in 1..10 : DigitChars[d] = c

DigitVal(c) == (CHOOSE d \in 1..10 : DigitChars[d] = c) - 1

UpperChars == <<"A", "B", "C", "D", "E", "F", "G", "H", "I", "J", "K", "L", "M",
                "N", "O", "P", "Q", "R", "S", "T", "U", "V", "W", "X", "Y", "Z">>

LowerChars == <<"a", "b", "c", "d", "e", "f", "g", "h", "i", "j", "k", "l", "m",
                "n", "o", "p", "q", "r", "s", "t", "u", "v", "w", "x", "y", "z">>

LowerChar(c) ==
    IF \E u \in 1..26 : UpperChars[u] = c
    THEN LowerChars[CHOOSE u \in 1..26 : UpperChars[u] = c]
    ELSE c

\* str.lower()
Lower(s) == [k \in 1..Len(s) |-> LowerChar(s[k])]

\* the characters \s matches and str.strip() removes
IsSpace(c) == c \in {" ", "\n", "\t"}

\* the argument of the second strip() of clean
StripChars == {"[", "]", "{", "}", "(", ")", ",", ";", ":"}

AllDigits(s) == \A k \in 1..Len(s) : IsDigit(s[k])

\* str.strip(chars), with the stripped characters given as a set
StripSet(s, cs) ==
    LET keep == {k \in 1..Len(s) : s[k] \notin cs}
    IN  IF keep = {} THEN <<>>
        ELSE LET lo == CHOOSE k \in keep : \A m \in keep : k <= m
                 hi == CHOOSE k \in keep : \A m \in keep : k >= m
             IN  SubSeq(s, lo, hi)

\* clean(t): t.strip().strip("[]{}(),;:")
clean(t) == StripSet(StripSet(t, {" ", "\n", "\t"}), StripChars)

(***************************************************************************)
(* Regular expressions over cleaned tokens                                 *)
(***************************************************************************)
\* TXN_RE = ^\d{4}$
TXN_RE(t) == Len(t) = 4 /\ AllDigits(t)

\* ORDER_LONG_RE = ^\d{10,}(?:_\d+)?$
ORDER_LONG_RE(t) ==
    \/ Len(t) >= 10 /\ AllDigits(t)
    \/ \E u \in 11..(Len(t) - 1) :
          /\ t[u] = "_"
          /\ AllDigits(SubSeq(t, 1, u - 1))
          /\ AllDigits(SubSeq(t, u + 1, Len(t)))

\* NUM_RE = ^\d+(?:\.\d{1,2})?$
NUM_RE(t) ==
    \/ Len(t) >= 1 /\ AllDigits(t)
    \/ \E p \in 2..(Len(t) - 1) :
          /\ t[p] = "."
          /\ Len(t) - p <= 2
          /\ AllDigits(SubSeq(t, 1, p - 1))
          /\ AllDigits(SubSeq(t, p + 1, Len(t)))

\* DATE_RE = ^\d{4}/\d{1,2}/\d{1,2}$
DATE_RE(t) ==
    /\ Len(t) >= 8
    /\ t[5] = "/"
    /\ AllDigits(SubSeq(t, 1, 4))
    /\ \E q \in 7..8 :
          /\ q < Len(t)
          /\ t[q] = "/"
          /\ AllDigits(SubSeq(t, 6, q - 1))
          /\ Len(t) - q <= 2
          /\ AllDigits(SubSeq(t, q + 1, Len(t)))

(***************************************************************************)
(* Numbers and dates                                                       *)
(***************************************************************************)
\* Python integers and floats are unbounded for these inputs; the model holds
\* a digit string of more than 7 significant digits as IntCap, which every
\* comparison of the code (<= 999, < 10, > 100000) reads as "too large".
IntCap == 10000000

RECURSIVE DigitsValue(_)
DigitsValue(s) ==
    IF Len(s) = 0 THEN 0
    ELSE 10 * DigitsValue(SubSeq(s, 1, Len(s) - 1)) + DigitVal(s[Len(s)])

\* int(s) for a string of digits
IntOf(s) ==
    LET sig == {k \in 1..Len(s) : s[k] # "0"}
        first == CHOOSE k \in sig : \A m \in sig : k <= m
    IN  IF sig = {} THEN 0
        ELSE IF Len(s) - first + 1 > 7 THEN IntCap
        ELSE DigitsValue(SubSeq(s, first, Len(s)))

\* float(t), in cents, for a string t that NUM_RE matches
FloatCents(t) ==
    LET dots == {p \in 1..Len(t) : t[p] = "."}
    IN  IF dots = {} THEN 100 * IntOf(t)
        ELSE LET p == CHOOSE q \in dots : TRUE
                 frac == SubSeq(t, p + 1, Len(t))
             IN  100 * IntOf(SubSeq(t, 1, p - 1))
                 + (IF Len(frac) = 1 THEN 10 * IntOf(frac) ELSE IntOf(frac))

IsLeap(y) == (y % 4 = 0 /\ y % 100 # 0) \/ y % 400 = 0

DaysInMonth(y, m) ==
    IF m = 2 THEN (IF IsLeap(y) THEN 29 ELSE 28)
    ELSE IF m \in {4, 6, 9, 11} THEN 30 ELSE 31

\* datetime.date(y, m, d) raises ValueError outside these ranges
ValidDate(y, m, d) ==
    /\ 1 <= y /\ y <= 9999
    /\ 1 <= m /\ m <= 12
    /\ 1 <= d /\ d <= DaysInMonth(y, m)

\* parse_ymd_to_date(s) for a string s that DATE_RE matches: the date, or the
\* ValueError of the date constructor
parse_ymd_to_date(s) ==
    LET q == CHOOSE k \in 7..8 : k <= Len(s) /\ s[k] = "/"
        y == IntOf(SubSeq(s, 1, 4))
        m == IntOf(SubSeq(s, 6, q - 1))
        d == IntOf(SubSeq(s, q + 1, Len(s)))
    IN  [raised |-> ~ValidDate(y, m, d), y |-> y, m |-> m, d |-> d]

\* days from 0000-03-01 (proleptic Gregorian) to y-m-d
DayNumber(y, m, d) ==
    LET yy == IF m <= 2 THEN y - 1 ELSE y
        mm == IF m > 2 THEN m - 3 ELSE m + 9
    IN  365 * yy + (yy \div 4) - (yy \div 100) + (yy \div 400)
        + ((153 * mm + 2) \div 5) + d - 1

\* excel_serial_from_date(dt): (dt - date(1899, 12, 30)).days
excel_serial_from_date(dt) == DayNumber(dt.y, dt.m, dt.d) - DayNumber(1899, 12, 30)

RECURSIVE NatChars(_)
NatChars(v) ==
    IF v < 10 THEN <<DigitChars[v + 1]>>
    ELSE NatChars(v \div 10) \o <<DigitChars[(v % 10) + 1]>>

\* to_dutch_text(num): f"{float(num):.2f}".replace(".", ",")
to_dutch_text(cost) ==
    IF cost = None THEN <<>>
    ELSE NatChars(Val(cost) \div 100)
         \o <<",", DigitChars[((Val(cost) \div 10) % 10) + 1],
                   DigitChars[(Val(cost) % 10) + 1]>>

(***************************************************************************)
(* Token classifiers                                                       *)
(***************************************************************************)
SINGLE_COUNTRIES ==
    {<<"c", "a", "n", "a", "d", "a">>,
     <<"a", "u", "s", "t", "r", "a", "l", "i", "a">>,
     <<"m", "e", "x", "i", "c", "o">>,
     <<"c", "h", "i", "n", "a">>,
     <<"f", "r", "a", "n", "c", "e">>,
     <<"g", "e", "r", "m", "a", "n", "y">>,
     <<"i", "t", "a", "l", "y">>,
     <<"s", "p", "a", "i", "n">>,
     <<"j", "a", "p", "a", "n">>,
     <<"s", "i", "n", "g", "a", "p", "o", "r", "e">>,
     <<"u", "a", "e">>,
     <<"p", "a", "k", "i", "s", "t", "a", "n">>,
     <<"u", "k">>}

\* is_country_at(tokens, i): (True, index of the last token of the marker) or
\* (False, -1)
is_country_at(tokens, i) ==
    LET t == Lower(clean(At(tokens, i)))
    IN  IF /\ t = <<"u", "n", "i", "t", "e", "d">>
           /\ i + 1 < Len(tokens)
           /\ Lower(clean(At(tokens, i + 1))) = <<"s", "t", "a", "t", "e", "s">>
        THEN [ok |-> TRUE, cend |-> i + 1]
        ELSE IF t \in SINGLE_COUNTRIES
        THEN [ok |-> TRUE, cend |-> i]
        ELSE [ok |-> FALSE, cend |-> -1]

\* is_row_start(tokens, i): order id, transaction number and date at i, i+1, i+2
is_row_start(tokens, i) ==
    IF i + 2 >= Len(tokens) THEN FALSE
    ELSE /\ ORDER_LONG_RE(clean(At(tokens, i)))
         /\ TXN_RE(clean(At(tokens, i + 1)))
         /\ DATE_RE(clean(At(tokens, i + 2)))

\* the test of the loop of qty_before_country: t.isdigit() and 1 <= int(t) <= 999
IsBareQuantity(tok) ==
    LET t == clean(tok)
    IN  Len(t) >= 1 /\ AllDigits(t) /\ 1 <= IntOf(t) /\ IntOf(t) <= 999

\* qty_before_country(tokens, row_start, country_pos): the loop runs j from
\* country_pos - 1 down to row_start + 1 and returns at its first hit
qty_before_country(tokens, row_start, country_pos) ==
    LET hits == {j \in (row_start + 1)..(country_pos - 1) :
                    IsBareQuantity(At(tokens, j))}
    IN  IF hits = {} THEN None
        ELSE Some(IntOf(clean(At(tokens,
                 CHOOSE j \in hits : \A m \in hits : j >= m))))

\* the price ceiling of looks_like_price, in currency units
PRICE_MAX == 100000

\* looks_like_price without the transaction-number exclusion
PriceIgnoringTxn(tok) ==
    LET t == clean(tok)
    IN  IF ~NUM_RE(t) THEN FALSE
        ELSE IF ORDER_LONG_RE(t) THEN FALSE
        ELSE LET v == FloatCents(t)
             IN  IF (\A p \in 1..Len(t) : t[p] # ".") /\ v < 10 * 100 THEN FALSE
                 ELSE IF v <= 0 \/ v > 100 * PRICE_MAX THEN FALSE
                 ELSE TRUE

\* looks_like_price(tok)
looks_like_price(tok) ==
    LET t == clean(tok)
    IN  IF TXN_RE(t) THEN FALSE
        ELSE IF ~NUM_RE(t) THEN FALSE
        ELSE IF ORDER_LONG_RE(t) THEN FALSE
        ELSE LET v == FloatCents(t)
             IN  IF (\A p \in 1..Len(t) : t[p] # ".") /\ v < 10 * 100 THEN FALSE
                 ELSE IF v <= 0 \/ v > 100 * PRICE_MAX THEN FALSE
                 ELSE TRUE

\* last_price_after_country(tokens, start, row_end): the loop runs j upwards
\* and keeps the last hit
last_price_after_country(tokens, start, row_end) ==
    LET hits == {j \in start..(row_end - 1) : looks_like_price(At(tokens, j))}
    IN  IF hits = {} THEN None
        ELSE Some(FloatCents(clean(At(tokens,
                 CHOOSE j \in hits : \A m \in hits : j >= m))))

\* s.startswith(prefix)
StartsWith(s, prefix) ==
    Len(s) >= Len(prefix) /\ SubSeq(s, 1, Len(prefix)) = prefix

\* stop_at_total_usd(tokens): tokens[:i] for the first token that starts the
\* totals section
stop_at_total_usd(tokens) ==
    LET hits == {k \in 0..(Len(tokens) - 1) :
                    StartsWith(Lower(clean(At(tokens, k))), <<"t", "o", "t", "a", "l", "(", "u", "s", "d">>)}
    IN  IF hits = {} THEN tokens
        ELSE SubSeq(tokens, 1, CHOOSE k \in hits : \A m \in hits : k <= m)

(***************************************************************************)
(* Row scanner: one iteration of the while loop of parse_pdf_tokens at an  *)
(* anchor                                                                  *)
(***************************************************************************)
\* the cap on a row window
ROW_CAP == 320

\* RowEnd without the cap: the row runs to the next anchor or the end
RowEndUncapped(tokens, i) ==
    LET anchors == {j \in (i + 3)..(Len(tokens) - 1) : is_row_start(tokens, j)}
    IN  IF anchors = {} THEN Len(tokens)
        ELSE CHOOSE j \in anchors : \A m \in anchors : j <= m

\* RowEnd whose search for the next anchor starts at i itself
RowEndFromAnchor(tokens, i) ==
    LET cap == Min(Len(tokens), i + ROW_CAP)
        anchors == {j \in i..(cap - 1) : is_row_start(tokens, j)}
    IN  IF anchors = {} THEN cap
        ELSE CHOOSE j \in anchors : \A m \in anchors : j <= m

\* row_end: min(n, i + 320), lowered to the first anchor found from i + 3
RowEnd(tokens, i) ==
    LET cap == Min(Len(tokens), i + ROW_CAP)
        anchors == {j \in (i + 3)..(cap - 1) : is_row_start(tokens, j)}
    IN  IF anchors = {} THEN cap
        ELSE CHOOSE j \in anchors : \A m \in anchors : j <= m

\* FirstCountry that pivots on the date token when the window has no marker
FirstCountryOrDate(tokens, i, row_end) ==
    LET hits == {k \in (i + 3)..(row_end - 1) : is_country_at(tokens, k).ok}
    IN  IF hits = {} THEN [pos |-> i + 2, cend |-> i + 2]
        ELSE LET k == CHOOSE h \in hits : \A m \in hits : h <= m
             IN  [pos |-> k, cend |-> is_country_at(tokens, k).cend]

\* the first country marker of [i + 3, row_end): country_pos and country_end
FirstCountry(tokens, i, row_end) ==
    LET hits == {k \in (i + 3)..(row_end - 1) : is_country_at(tokens, k).ok}
    IN  IF hits = {} THEN [pos |-> -1, cend |-> -1]
        ELSE LET k == CHOOSE h \in hits : \A m \in hits : h <= m
             IN  [pos |-> k, cend |-> is_country_at(tokens, k).cend]

\* Python truthiness of an optional integer: None and 0 are false
Truthy(o) == o # None /\ Val(o) # 0

\* the test that guards rows.append
KeepRow(order4, date_serial, cost) ==
    Truthy(order4) /\ Truthy(date_serial) /\ cost # None

\* the Qty field: int(qty) if qty else None
QtyField(qty) == IF Truthy(qty) THEN qty ELSE None

\* the body of the loop at an anchor i. raised: the date constructor raised;
\* otherwise the row's bounds, its fields, and whether it is appended.
ScanRow(tokens, i, file_name) ==
    LET txn_s == clean(At(tokens, i + 1))
        date_s == clean(At(tokens, i + 2))
        order4 == IF TXN_RE(txn_s) THEN Some(IntOf(txn_s)) ELSE None
        parsed == parse_ymd_to_date(date_s)
    IN  IF DATE_RE(date_s) /\ parsed.raised
        THEN [raised |-> TRUE, anchor |-> i]
        ELSE
        LET date_serial == IF DATE_RE(date_s)
                           THEN Some(excel_serial_from_date(parsed)) ELSE None
            row_end == RowEnd(tokens, i)
            country == FirstCountry(tokens, i, row_end)
            qty == IF country.pos # -1
                   THEN qty_before_country(tokens, i, country.pos) ELSE None
            cost == IF country.pos # -1
                    THEN last_price_after_country(tokens, country.cend + 1, row_end)
                    ELSE None
            keep == KeepRow(order4, date_serial, cost)
        IN  [raised |-> FALSE, anchor |-> i, row_end |-> row_end,
             country_pos |-> country.pos, country_end |-> country.cend,
             order4 |-> order4, date_serial |-> date_serial,
             qty |-> qty, cost |-> cost, keep |-> keep,
             item |-> IF keep
                      THEN Some([File_Name |-> file_name,
                                 DateSerial |-> Val(date_serial),
                                 Order |-> Val(order4),
                                 Qty |-> QtyField(qty),
                                 Cost |-> Val(cost),
                                 Cost_NL |-> to_dutch_text(cost)])
                      ELSE None]

\* where the scan resumes after a row
Resume(row_end) == row_end

RECURSIVE ScanFrom(_, _, _, _)
ScanFrom(tokens, i, rows, file_name) ==
    IF i >= Len(tokens) THEN [raised |-> FALSE, rows |-> rows]
    ELSE IF ~is_row_start(tokens, i) THEN ScanFrom(tokens, i + 1, rows, file_name)
    ELSE LET r == ScanRow(tokens, i, file_name)
         IN  IF r.raised THEN [raised |-> TRUE, rows |-> <<>>]
             ELSE ScanFrom(tokens, Resume(r.row_end), rows \o r.item, file_name)

\* parse_pdf_tokens(tokens, file_name): the rows, or the exception raised
parse_pdf_tokens(tokens, file_name) ==
    ScanFrom(stop_at_total_usd(tokens), 0, <<>>, file_name)

(***************************************************************************)
(* The row scanner of parse_invoices.py                                    *)
(***************************************************************************)
\* the test that guards rows.append in parse_invoices.py
cli_KeepRow(order4, date_serial, cost) ==
    order4 # None /\ date_serial # None /\ cost # None

\* the Qty field in parse_invoices.py: int(qty) if qty is not None else None
cli_QtyField(qty) == qty

\* the body of the loop of parse_invoices.py at an anchor, given the record r
\* of the statements the two files share word for word (txn_s to cost)
cli_RowOf(r, file_name) ==
    IF r.raised THEN r
    ELSE [r EXCEPT
            !.keep = cli_KeepRow(r.order4, r.date_serial, r.cost),
            !.item = IF cli_KeepRow(r.order4, r.date_serial, r.cost)
                     THEN Some([File_Name |-> file_name,
                                DateSerial |-> Val(r.date_serial),
                                Order |-> Val(r.order4),
                                Qty |-> cli_QtyField(r.qty),
                                Cost |-> Val(r.cost),
                                Cost_NL |-> to_dutch_text(r.cost)])
                     ELSE None]

cli_ScanRow(tokens, i, file_name) ==
    cli_RowOf(ScanRow(tokens, i, file_name), file_name)

\* the rest of the loop after the row at an anchor has been computed
cli_Continue(r, rows) ==
    IF r.raised THEN [stop |-> TRUE, rows |-> <<>>, i |-> r.anchor]
    ELSE [stop |-> FALSE, rows |-> rows \o r.item, i |-> r.row_end]

RECURSIVE cli_ScanFrom(_, _, _, _)
\* after a row: the exception leaves the function, or the loop goes on
cli_Next(tokens, c, file_name) ==
    IF c.stop THEN [raised |-> TRUE, rows |-> <<>>]
    ELSE cli_ScanFrom(tokens, c.i, c.rows, file_name)

cli_ScanFrom(tokens, i, rows, file_name) ==
    IF i >= Len(tokens) THEN [raised |-> FALSE, rows |-> rows]
    ELSE IF ~is_row_start(tokens, i)
         THEN cli_ScanFrom(tokens, i + 1, rows, file_name)
    ELSE cli_Next(tokens,
                  cli_Continue(cli_ScanRow(tokens, i, file_name), rows),
                  file_name)

\* parse_pdf_tokens(tokens, file_name) of parse_invoices.py
cli_parse_pdf_tokens(tokens, file_name) ==
    cli_ScanFrom(stop_at_total_usd(tokens), 0, <<>>, file_name)

(***************************************************************************)
(* Totals extractor: extract_tokens_and_text and extract_total_usd         *)
(***************************************************************************)
\* the character of text at position p (1-based), "" beyond the text
Ch(text, p) == IF 1 <= p /\ p <= Len(text) THEN text[p] ELSE ""

\* the end of a greedy \s* that starts at p
SkipWs(text, p) ==
    Lowest({q \in p..(Len(text) + 1) : ~IsSpace(Ch(text, q))})

\* a literal of the pattern at p, under re.IGNORECASE
LitAt(text, p, lit) ==
    /\ p + Len(lit) - 1 <= Len(text)
    /\ Lower(SubSeq(text, p, p + Len(lit) - 1)) = lit

\* [\d,]+(?:\.\d+)? at p: the position of its last character, or 0
NumberEnd(text, p) ==
    IF ~(IsDigit(Ch(text, p)) \/ Ch(text, p) = ",") THEN 0
    ELSE LET q == Lowest({e \in p..Len(text) :
                       ~(IsDigit(Ch(text, e + 1)) \/ Ch(text, e + 1) = ",")})
         IN  IF Ch(text, q + 1) = "." /\ IsDigit(Ch(text, q + 2))
             THEN Lowest({e \in (q + 2)..Len(text) : ~IsDigit(Ch(text, e + 1))})
             ELSE q

NoMatch == [ok |-> FALSE, at |-> 0, to |-> 0, group |-> <<>>]

\* TOTAL_USD_RE matched at p:
\* Total\s*\(\s*USD\s*\)\s*:\s*([$]?\s*[\d,]+(?:\.\d+)?)
TotalUsdAt(text, p) ==
    IF ~LitAt(text, p, <<"t", "o", "t", "a", "l">>) THEN NoMatch
    ELSE LET p2 == SkipWs(text, p + 5)
             p3 == SkipWs(text, p2 + 1)
             p4 == SkipWs(text, p3 + 3)
             p5 == SkipWs(text, p4 + 1)
             g == SkipWs(text, p5 + 1)
             d == IF Ch(text, g) = "$" THEN SkipWs(text, g + 1) ELSE g
         IN  IF /\ Ch(text, p2) = "("
                /\ LitAt(text, p3, <<"u", "s", "d">>)
                /\ Ch(text, p4) = ")"
                /\ Ch(text, p5) = ":"
                /\ NumberEnd(text, d) # 0
             THEN [ok |-> TRUE, at |-> p, to |-> NumberEnd(text, d),
                   group |-> SubSeq(text, g, NumberEnd(text, d))]
             ELSE NoMatch

\* TOTAL_AMOUNT_RE matched at p: TOTAL\s+AMOUNT\s*[$]?\s*([\d,]+(?:\.\d+)?)
TotalAmountAt(text, p) ==
    IF ~LitAt(text, p, <<"t", "o", "t", "a", "l">>) THEN NoMatch
    ELSE LET p2 == SkipWs(text, p + 5)
             p3 == SkipWs(text, p2 + 6)
             d == IF Ch(text, p3) = "$" THEN SkipWs(text, p3 + 1) ELSE p3
         IN  IF /\ p2 > p + 5
                /\ LitAt(text, p2, <<"a", "m", "o", "u", "n", "t">>)
                /\ NumberEnd(text, d) # 0
             THEN [ok |-> TRUE, at |-> p, to |-> NumberEnd(text, d),
                   group |-> SubSeq(text, d, NumberEnd(text, d))]
             ELSE NoMatch

\* TOTAL_USD_RE.search(text): the leftmost match
SearchTotalUsd(text) ==
    LET hits == {p \in 1..Len(text) : TotalUsdAt(text, p).ok}
    IN  IF hits = {} THEN NoMatch ELSE TotalUsdAt(text, Lowest(hits))

\* TOTAL_AMOUNT_RE.search(text): the leftmost match
SearchTotalAmount(text) ==
    LET hits == {p \in 1..Len(text) : TotalAmountAt(text, p).ok}
    IN  IF hits = {} THEN NoMatch ELSE TotalAmountAt(text, Lowest(hits))

\* str.replace(c, "") for each character c of cs
RemoveChars(s, cs) == SelectSeq(s, LAMBDA c : c \notin cs)

\* float(raw), in cents: None stands for the ValueError. The amounts of the
\* model carry at most two fraction digits.
FloatOfRaw(raw) ==
    LET r == StripSet(raw, {" ", "\n", "\t"})
        dot == {k \in 1..Len(r) : r[k] = "."}
        whole == IF dot = {} THEN r ELSE SubSeq(r, 1, Lowest(dot) - 1)
        frac == IF dot = {} THEN <<>> ELSE SubSeq(r, Lowest(dot) + 1, Len(r))
    IN  IF \/ Len(whole) + Len(frac) = 0
           \/ ~AllDigits(whole)
           \/ ~AllDigits(frac)
        THEN None
        ELSE Some(100 * IntOf(whole)
                  + (IF Len(frac) = 1 THEN 10 * IntOf(frac)
                     ELSE IntOf(SubSeq(frac, 1, Min(2, Len(frac))))))

\* TotalMatch with the two patterns tried in the other order
TotalMatchAmountFirst(full_text) ==
    IF SearchTotalAmount(full_text).ok THEN SearchTotalAmount(full_text)
    ELSE SearchTotalUsd(full_text)

\* the match extract_total_usd reads: TOTAL_USD_RE.search(full_text) or
\* TOTAL_AMOUNT_RE.search(full_text)
TotalMatch(full_text) ==
    IF SearchTotalUsd(full_text).ok THEN SearchTotalUsd(full_text)
    ELSE SearchTotalAmount(full_text)

\* extract_total_usd(full_text)
extract_total_usd(full_text) ==
    IF full_text = <<>> THEN None
    ELSE LET m == TotalMatch(full_text)
         IN  IF ~m.ok THEN None
             ELSE FloatOfRaw(RemoveChars(m.group, {"$", " ", ","}))

\* "\n".join(parts)
RECURSIVE JoinLines(_)
JoinLines(parts) ==
    IF Len(parts) = 0 THEN <<>>
    ELSE IF Len(parts) = 1 THEN parts[1]
    ELSE parts[1] \o <<"\n">> \o JoinLines(Tail(parts))

\* re.split(r"\s+", txt): the runs between whitespace, with an empty string
\* where txt starts or ends in whitespace
RECURSIVE SplitWs(_)
SplitWs(txt) ==
    LET ws == {k \in 1..Len(txt) : IsSpace(txt[k])}
    IN  IF ws = {} THEN <<txt>>
        ELSE <<SubSeq(txt, 1, Lowest(ws) - 1)>>
             \o SplitWs(SubSeq(txt, SkipWs(txt, Lowest(ws)), Len(txt)))

RECURSIVE PageTokens(_)
PageTokens(page_texts) ==
    IF Len(page_texts) = 0 THEN <<>>
    ELSE (IF Head(page_texts) = <<>> THEN <<>> ELSE SplitWs(Head(page_texts)))
         \o PageTokens(Tail(page_texts))

\* extract_tokens_and_text(pdf_path), given the text of each page
extract_tokens_and_text(page_texts) ==
    [tokens |-> PageTokens(page_texts),
     full_text |-> JoinLines(SelectSeq(page_texts, LAMBDA t : t # <<>>))]

(***************************************************************************)
(* State                                                                   *)
(***************************************************************************)
VARIABLES
    \* one run of parse_pdf_tokens
    input,      \* the tokens argument
    tokens,     \* tokens after stop_at_total_usd
    i,          \* the scan position
    rows,       \* the LineItems appended so far
    pc,         \* "start", "loop", "done" (returned) or "raised"
    trace,      \* history: one record per row the loop has closed
    \* one call of looks_like_price, and the row scanner on a row that ends in
    \* the same token
    tok,        \* the token
    price,      \* None before the call, then <<looks_like_price(tok)>>
    priced,     \* the rows parse_pdf_tokens returns for PricedRow(tok)
    fpc,        \* "price", "total" while a call is due, "done" after, or "idle"
    \* one call of extract_total_usd on the text of a document
    pages,      \* the text of each page, in page order
    total,      \* the value returned
    \* one call of convert_pdfs_to_excel
    pdf_paths,  \* the files: name, whether the PDF opens, the text of its pages
    done,       \* how many files the for loop has processed
    all_rows,   \* the line-items table
    row_src,    \* history: for each entry of all_rows, the index of its file
    totals_rows,\* the totals table
    log_rows,   \* the log table
    result,     \* None, or the workbook written
    bpc,        \* "loop", "done" (returned) or "idle"
    \* one POST to the upload handler
    files,      \* request.files.getlist("pdfs"): filename and content of each
    disk_ok,    \* whether the workbook can be written to the output directory
    saved,      \* pdf_paths of the handler: the sanitized names saved so far
    invoked,    \* whether convert_pdfs_to_excel has been called
    response,   \* None, or the status and body of the answer
    hpc,        \* "recv", "saving", "done" (answered) or "idle"
    \* both copies of the row scanner on the same tokens
    etokens,    \* the tokens argument
    web_rows,   \* what web.py's parse_pdf_tokens does with it
    cli_rows    \* what parse_invoices.py's parse_pdf_tokens does with it

scanVars == <<input, tokens, i, rows, pc, trace>>

priceVars == <<tok, price, priced>>

totalVars == <<pages, total>>

batchVars ==
    <<pdf_paths, done, all_rows, row_src, totals_rows, log_rows, result, bpc>>

handlerVars == <<files, disk_ok, saved, invoked, response, hpc>>

equivVars == <<etokens, web_rows, cli_rows>>

vars ==
    <<scanVars, priceVars, fpc, totalVars, batchVars, handlerVars, equivVars>>

\* what a step of one function leaves alone: the state of the other functions
scanOthers == <<priceVars, fpc, totalVars, batchVars, handlerVars, equivVars>>

priceOthers == <<scanVars, totalVars, batchVars, handlerVars, equivVars>>

totalOthers == <<scanVars, priceVars, batchVars, handlerVars, equivVars>>

batchOthers == <<scanVars, priceVars, fpc, totalVars, handlerVars, equivVars>>

handlerOthers == <<scanVars, priceVars, fpc, totalVars, batchVars, equivVars>>

equivOthers == <<scanVars, priceVars, totalVars, batchVars, handlerVars>>

BatchIdle ==
    /\ pdf_paths = <<>>
    /\ done = 0
    /\ all_rows = <<>>
    /\ row_src = <<>>
    /\ totals_rows = <<>>
    /\ log_rows = <<>>
    /\ result = None
    /\ bpc = "idle"

TotalIdle ==
    /\ pages = <<>>
    /\ total = None

ScanIdle ==
    /\ input = <<>>
    /\ tokens = <<>>
    /\ i = 0
    /\ rows = <<>>
    /\ pc = "idle"
    /\ trace = <<>>

PriceIdle ==
    /\ tok = <<>>
    /\ price = None
    /\ priced = <<>>

HandlerIdle ==
    /\ files = <<>>
    /\ disk_ok = TRUE
    /\ saved = <<>>
    /\ invoked = FALSE
    /\ response = None
    /\ hpc = "idle"

EquivIdle ==
    /\ etokens = <<>>
    /\ web_rows = None
    /\ cli_rows = None

(***************************************************************************)
(* Inputs of the scanner                                                   *)
(***************************************************************************)
\* longest row body drawn exhaustively from BodyTokens
MaxBody == 3

\* length of the filler that carries a row window to the cap
PadLen == 316

FILE_NAME == "a.pdf"

ORD_A == <<"1", "2", "3", "4", "5", "6", "7", "8", "9", "0">>
ORD_B == <<"7", "3", "1", "5", "1", "1", "1", "7", "7", "2", "4", "9", "7", "_", "2">>
TXN_A == <<"4", "8", "2", "1">>
TXN_ZERO == <<"0", "0", "0", "0">>
TXN_SMALL == <<"0", "0", "0", "5">>
DATE_A == <<"2", "0", "2", "5", "/", "3", "/", "2">>
DATE_BAD == <<"2", "0", "2", "5", "/", "1", "3", "/", "1">>
QTY_A == <<"5">>
QTY_B == <<"1", "2">>
CANADA == <<"C", "a", "n", "a", "d", "a", ",">>
UNITED == <<"U", "n", "i", "t", "e", "d">>
STATES == <<"S", "t", "a", "t", "e", "s">>
PRICE_A == <<"1", "2", ".", "5", "0">>
NOISE == <<"x">>
TOTAL_TOK == <<"T", "o", "t", "a", "l", "(", "U", "S", "D", ")", ":">>

\* the anchors: well-formed, transaction number 0000, an impossible date, and
\* a transaction number that reads as a quantity
Anchors ==
    {<<ORD_A, TXN_A, DATE_A>>, <<ORD_B, TXN_ZERO, DATE_A>>,
     <<ORD_A, TXN_A, DATE_BAD>>, <<ORD_B, TXN_SMALL, DATE_A>>}

BodyTokens == {QTY_A, QTY_B, CANADA, UNITED, STATES, PRICE_A}

SeqsUpTo(S, k) == UNION {[1..m -> S] : m \in 0..k}

Bodies == SeqsUpTo(BodyTokens, MaxBody)

ROW_A == <<ORD_A, TXN_A, DATE_A, QTY_A, CANADA, PRICE_A>>

Tails == {<<>>, ROW_A, <<TOTAL_TOK>> \o ROW_A}

Pad == [k \in 1..PadLen |-> NOISE]

\* one row with every short body, alone, before another row, or before the
\* totals section
RowInputs == {a \o b \o t : a \in Anchors, b \in Bodies, t \in Tails}

\* a row that runs to the cap: the tokens around position anchor + 320
WindowInputs ==
    {<<ORD_A, TXN_A, DATE_A>> \o m \o Pad \o e :
        m \in {<<>>, <<QTY_A>>, <<QTY_A, CANADA>>},
        e \in SeqsUpTo({CANADA, UNITED, STATES, PRICE_A}, 2)
              \cup {ROW_A, <<PRICE_A>> \o ROW_A}}

ScanInputs == RowInputs \cup WindowInputs \cup {<<>>, <<NOISE, ORD_A, TXN_A>>}

(***************************************************************************)
(* The scanner, one loop iteration per step                                *)
(***************************************************************************)
ScanInit ==
    /\ input \in ScanInputs
    /\ tokens = <<>>
    /\ i = 0
    /\ rows = <<>>
    /\ pc = "start"
    /\ trace = <<>>
    /\ PriceIdle /\ TotalIdle /\ BatchIdle /\ fpc = "idle"
    /\ HandlerIdle /\ EquivIdle

\* tokens = stop_at_total_usd(tokens); rows = []; i = 0; n = len(tokens)
ScanStart ==
    /\ pc = "start"
    /\ tokens' = stop_at_total_usd(input)
    /\ i' = 0
    /\ rows' = <<>>
    /\ pc' = "loop"
    /\ UNCHANGED <<input, trace>>
    /\ UNCHANGED scanOthers

\* not an anchor: i += 1; continue
Seek ==
    /\ pc = "loop"
    /\ i < Len(tokens)
    /\ ~is_row_start(tokens, i)
    /\ i' = i + 1
    /\ UNCHANGED <<input, tokens, rows, pc, trace>>
    /\ UNCHANGED scanOthers

\* an anchor whose date the date constructor rejects: the ValueError leaves
\* parse_pdf_tokens
RowRaise ==
    /\ pc = "loop"
    /\ i < Len(tokens)
    /\ is_row_start(tokens, i)
    /\ ScanRow(tokens, i, FILE_NAME).raised
    /\ pc' = "raised"
    /\ UNCHANGED <<input, tokens, i, rows, trace>>
    /\ UNCHANGED scanOthers

\* an anchor: bound the row, resolve its fields, append or drop, i = row_end
Row ==
    /\ pc = "loop"
    /\ i < Len(tokens)
    /\ is_row_start(tokens, i)
    /\ LET r == ScanRow(tokens, i, FILE_NAME)
       IN  /\ ~r.raised
           /\ rows' = rows \o r.item
           /\ i' = Resume(r.row_end)
           /\ trace' = Append(trace, r)
    /\ UNCHANGED <<input, tokens, pc>>
    /\ UNCHANGED scanOthers

\* the loop ends: return rows
ScanReturn ==
    /\ pc = "loop"
    /\ i >= Len(tokens)
    /\ pc' = "done"
    /\ UNCHANGED <<input, tokens, i, rows, trace>>
    /\ UNCHANGED scanOthers

ScanNext == ScanStart \/ Seek \/ RowRaise \/ Row \/ ScanReturn

SpecScan == ScanInit /\ [][ScanNext]_vars

\* parse_pdf_tokens has returned or raised
Halted == pc \in {"done", "raised"}

\* the interpreter keeps running the function until it returns or raises: weak
\* fairness of ScanNext, whose steps are possible exactly when ~Halted
ScanFairness == []<>Halted \/ []<><<ScanNext>>_vars

SpecScanLive == ScanInit /\ [][ScanNext]_vars /\ ScanFairness

(***************************************************************************)
(* looks_like_price on one token                                           *)
(***************************************************************************)
\* longest run of digits drawn exhaustively for the integer part of a token
MaxDigits == 4

DigitRuns == SeqsUpTo({"0", "1", "9"}, MaxDigits)

\* integer parts around the 4-digit, 10-digit and 100000 boundaries
LongRuns ==
    {<<"9", "9", "9", "9", "9">>,
     <<"1", "0", "0", "0", "0", "0">>,
     <<"1", "0", "0", "0", "0", "1">>,
     <<"0", "0", "0", "0", "0", "0", "0", "0", "1", "2">>,
     <<"1", "2", "3", "4", "5", "6", "7", "8", "9", "0">>,
     <<"1", "2", "3", "4", "5", "6", "7", "8", "9", "0", "1">>}

\* what follows the integer part
TokenTails ==
    {<<>>, <<".">>, <<".", "0">>, <<".", "5">>, <<".", "0", "0">>, <<".", "0", "1">>, <<".", "9", "9">>,
     <<".", "9", "9", "9">>, <<"_", "2">>, <<".", ".", "5">>, <<".", "5", ".">>, <<"/", "1">>, <<"x">>}

TokenHeads == {<<>>, <<"(">>, <<"$">>, <<"-">>}

TokenEnds == {<<>>, <<")">>, <<",", ";">>}

PriceInputs ==
    {h \o d \o t \o e :
        h \in TokenHeads, d \in DigitRuns \cup LongRuns, t \in TokenTails,
        e \in TokenEnds}

\* a row whose only token after the country marker is tok
PricedRow(t) == <<ORD_A, TXN_A, DATE_A, QTY_A, CANADA, t>>

PriceInit ==
    /\ tok \in PriceInputs
    /\ price = None
    /\ priced = <<>>
    /\ fpc = "price"
    /\ ScanIdle /\ TotalIdle /\ BatchIdle /\ HandlerIdle /\ EquivIdle

Classify ==
    /\ fpc = "price"
    /\ price' = Some(looks_like_price(tok))
    /\ priced' = parse_pdf_tokens(PricedRow(tok), FILE_NAME).rows
    /\ fpc' = "done"
    /\ UNCHANGED tok
    /\ UNCHANGED priceOthers

PriceNext == Classify

SpecPrice == PriceInit /\ [][PriceNext]_vars

(***************************************************************************)
(* extract_total_usd on the text of one document                           *)
(***************************************************************************)
\* most pages of a document
MaxPages == 2

PageHeads ==
    {<<>>,
     <<"t", "o", "t", "a", "l", " ", "(", " ", "u", "s", "d", " ", ")", " ", ":">>,
     <<"T", "O", "T", "A", "L", " ", "A", "M", "O", "U", "N", "T", " ">>,
     <<"T", "o", "t", "a", "l", " ", "A", "m", "o", "u", "n", "t", " ", "$">>}

PageTails ==
    {<<>>,
     <<"$", "1", ",", "2", "3", "4", ".", "5", "6">>,
     <<",">>,
     <<"7", ".", "0", "0", " ", "T", "o", "t", "a", "l", "(", "U", "S", "D", ")", ":", " ", "9", ".", "5", "0">>}

PageTexts == {h \o t : h \in PageHeads, t \in PageTails}

TotalInit ==
    /\ pages \in SeqsUpTo(PageTexts, MaxPages)
    /\ total = None
    /\ fpc = "total"
    /\ ScanIdle /\ PriceIdle /\ BatchIdle /\ HandlerIdle /\ EquivIdle

ExtractTotal ==
    /\ fpc = "total"
    /\ total' = extract_total_usd(extract_tokens_and_text(pages).full_text)
    /\ fpc' = "done"
    /\ UNCHANGED pages
    /\ UNCHANGED totalOthers

TotalNext == ExtractTotal

SpecTotal == TotalInit /\ [][TotalNext]_vars

(***************************************************************************)
(* convert_pdfs_to_excel on a batch of files                               *)
(***************************************************************************)
\* most files of a batch
MaxFiles == 2

\* " ".join(words)
RECURSIVE Words(_)
Words(ws) ==
    IF Len(ws) = 0 THEN <<>>
    ELSE IF Len(ws) = 1 THEN ws[1]
    ELSE ws[1] \o <<" ">> \o Words(Tail(ws))

TXN_B == <<"4", "8", "2", "2">>
PRICE_B == <<"9", ".", "9", "9">>

\* a row on page 1 and the matching total on page 2
DOC_OK == <<Words(ROW_A), <<"T", "o", "t", "a", "l", "(", "U", "S", "D", ")", ":", " ", "$", "1", "2", ".", "5", "0">>>>

\* the total is 0.02 above the row
DOC_CHECK == <<Words(ROW_A) \o <<" ", "T", "o", "t", "a", "l", "(", "U", "S", "D", ")", ":", " ", "1", "2", ".", "5", "2">>>>

\* a row and no total
DOC_ROWS == <<Words(ROW_A)>>

\* a good row, then a row whose date has month 13
DOC_BADDATE ==
    <<Words(ROW_A \o <<ORD_A, TXN_B, DATE_BAD, QTY_A, CANADA, PRICE_B>>)
      \o <<" ", "T", "o", "t", "a", "l", "(", "U", "S", "D", ")", ":", " ", "2", "2", ".", "4", "9">>>>

\* neither a row nor a total
DOC_NOTHING == <<<<"x">>>>

\* a total and no row
DOC_TOTAL == <<<<"T", "O", "T", "A", "L", " ", "A", "M", "O", "U", "N", "T", " ", "5", "0", "0", ".", "0", "0">>>>

\* a page without text
DOC_BLANK == <<<<>>>>

DocTexts ==
    {DOC_OK, DOC_CHECK, DOC_ROWS, DOC_BADDATE, DOC_NOTHING, DOC_TOTAL, DOC_BLANK}

FileNames == {"a.pdf", "b.pdf"}

\* a file that opens, with its page texts, or one that pdfplumber cannot open
Files ==
    [name : FileNames, opens : {TRUE}, texts : DocTexts]
    \cup [name : FileNames, opens : {FALSE}, texts : {<<>>}]

\* the rest of the try block, given the tokens and text of the file and the
\* outcome of parse_pdf_tokens
TryParsed(tt, parsed) ==
    IF parsed.raised THEN [raised |-> TRUE]
    ELSE [raised |-> FALSE, rows |-> parsed.rows,
          total |-> extract_total_usd(tt.full_text),
          ntokens |-> Len(tt.tokens)]

TryText(name, tt) == TryParsed(tt, parse_pdf_tokens(tt.tokens, name))

\* the try block for one file: whether it raised, and what it computed
TryFile(f) ==
    IF ~f.opens THEN [raised |-> TRUE]
    ELSE TryText(f.name, extract_tokens_and_text(f.texts))

\* Appended whose except branch appends the log entry only
AppendedLogOnly(name, t) ==
    IF t.raised
    THEN [rows |-> <<>>,
          totals |-> <<>>,
          log |-> <<[File |-> name, Tokens |-> None, Rows |-> None,
                     Status |-> "ERROR"]>>]
    ELSE [rows |-> t.rows,
          totals |-> <<[File_Name |-> name, Total_USD_Extracted |-> t.total]>>,
          log |-> <<[File |-> name, Tokens |-> Some(t.ntokens),
                     Rows |-> Some(Len(t.rows)), Status |-> "OK"]>>]

\* what one iteration of the for loop appends to all_rows, totals_rows and
\* log_rows, given the outcome t of its try block (the Error text of the log
\* is left out)
Appended(name, t) ==
    IF t.raised
    THEN [rows |-> <<>>,
          totals |-> <<[File_Name |-> name, Total_USD_Extracted |-> None]>>,
          log |-> <<[File |-> name, Tokens |-> None, Rows |-> None,
                     Status |-> "ERROR"]>>]
    ELSE [rows |-> t.rows,
          totals |-> <<[File_Name |-> name, Total_USD_Extracted |-> t.total]>>,
          log |-> <<[File |-> name, Tokens |-> Some(t.ntokens),
                     Rows |-> Some(Len(t.rows)), Status |-> "OK"]>>]

\* one iteration of the for loop
FileOutcome(f) == Appended(f.name, TryFile(f))

\* the loop body's effect on the three tables
AppendOutcome(o) ==
    /\ all_rows' = all_rows \o o.rows
    /\ row_src' = row_src \o [k \in 1..Len(o.rows) |-> done + 1]
    /\ totals_rows' = totals_rows \o o.totals
    /\ log_rows' = log_rows \o o.log

\* the guard of "return None"
NothingExtracted(rows_, totals_) == rows_ = <<>> /\ totals_ = <<>>

RECURSIVE SumCost(_, _)
\* SUMIF(COGS!$A:$A, name, COGS!$E:$E)
SumCost(rows_, name) ==
    IF Len(rows_) = 0 THEN 0
    ELSE (IF Head(rows_).File_Name = name THEN Head(rows_).Cost ELSE 0)
         + SumCost(Tail(rows_), name)

Abs(x) == IF x < 0 THEN -x ELSE x

\* a blank cell counts as 0 in a formula
CellNumber(o) == IF o = None THEN 0 ELSE Val(o)

\* the formulas written into a row of the InvoiceTotals sheet, evaluated:
\* C = SUMIF(..), D = C - B, E = IF(ABS(D) < 0.01, "OK", "CHECK")
SheetRow(t, sum) ==
    [File_Name |-> t.File_Name,
     Total_USD_Extracted |-> t.Total_USD_Extracted,
     COGS_Sum_Formula |-> Some(sum),
     Diff |-> Some(sum - CellNumber(t.Total_USD_Extracted)),
     Match |-> Some(IF Abs(sum - CellNumber(t.Total_USD_Extracted)) < 1
                    THEN "OK" ELSE "CHECK")]

TotalsSheetRow(rows_, t) == SheetRow(t, SumCost(rows_, t.File_Name))

BatchInit ==
    /\ pdf_paths \in SeqsUpTo(Files, MaxFiles)
    /\ done = 0
    /\ all_rows = <<>>
    /\ row_src = <<>>
    /\ totals_rows = <<>>
    /\ log_rows = <<>>
    /\ result = None
    /\ bpc = "loop"
    /\ ScanIdle /\ PriceIdle /\ TotalIdle /\ fpc = "idle"
    /\ HandlerIdle /\ EquivIdle

\* for pdf in pdf_paths: try ... except ...
ProcessFile ==
    /\ bpc = "loop"
    /\ done < Len(pdf_paths)
    /\ AppendOutcome(FileOutcome(pdf_paths[done + 1]))
    /\ done' = done + 1
    /\ UNCHANGED <<pdf_paths, result, bpc>>
    /\ UNCHANGED batchOthers

\* after the loop, nothing extracted: return None
ReturnNone ==
    /\ bpc = "loop"
    /\ done = Len(pdf_paths)
    /\ NothingExtracted(all_rows, totals_rows)
    /\ result' = None
    /\ bpc' = "done"
    /\ UNCHANGED <<pdf_paths, done, all_rows, row_src, totals_rows, log_rows>>
    /\ UNCHANGED batchOthers

\* after the loop: write the three sheets and the formulas, return the path
WriteWorkbook ==
    /\ bpc = "loop"
    /\ done = Len(pdf_paths)
    /\ ~NothingExtracted(all_rows, totals_rows)
    /\ result' = Some([COGS |-> all_rows,
                       InvoiceTotals |->
                           [r \in 1..Len(totals_rows) |->
                               TotalsSheetRow(all_rows, totals_rows[r])],
                       Log |-> log_rows])
    /\ bpc' = "done"
    /\ UNCHANGED <<pdf_paths, done, all_rows, row_src, totals_rows, log_rows>>
    /\ UNCHANGED batchOthers

BatchNext == ProcessFile \/ ReturnNone \/ WriteWorkbook

Spec == BatchInit /\ [][BatchNext]_vars

(***************************************************************************)
(* The upload handler (index of app.py)                                    *)
(***************************************************************************)
\* most files of a request drawn exhaustively
MaxUploads == 2

MAX_FILES_PER_UPLOAD == 10

\* stands for a character outside ASCII that NFKD does not map into ASCII
NON_ASCII == "U+6587"

\* the characters secure_filename keeps: [A-Za-z0-9_.-]
SafeChars ==
    {UpperChars[k] : k \in 1..26} \cup {LowerChars[k] : k \in 1..26}
    \cup {DigitChars[k] : k \in 1..10} \cup {"_", ".", "-"}

RECURSIVE JoinSplit(_, _, _)
\* "_".join(s.split()): the whitespace-separated words of s joined by "_";
\* started: a word has been written, gap: whitespace was read after it
JoinSplit(s, started, gap) ==
    IF Len(s) = 0 THEN <<>>
    ELSE IF IsSpace(Head(s)) THEN JoinSplit(Tail(s), started, started)
    ELSE (IF gap THEN <<"_">> ELSE <<>>)
         \o <<Head(s)>> \o JoinSplit(Tail(s), TRUE, FALSE)

\* filename.encode("ascii", "ignore"), then the path separator becomes " "
AsciiNoSep(s) ==
    [k \in 1..Len(SelectSeq(s, LAMBDA c : c # NON_ASCII)) |->
        IF SelectSeq(s, LAMBDA c : c # NON_ASCII)[k] = "/" THEN " "
        ELSE SelectSeq(s, LAMBDA c : c # NON_ASCII)[k]]

\* werkzeug's secure_filename on a POSIX host
secure_filename(s) ==
    StripSet(SelectSeq(JoinSplit(AsciiNoSep(s), FALSE, FALSE),
                       LAMBDA c : c \in SafeChars),
             {".", "_"})

FILE_PDF == <<"f", "i", "l", "e", ".", "p", "d", "f">>

\* x or "file.pdf"
OrFilePdf(x) == IF x = <<>> THEN FILE_PDF ELSE x

\* filename of the loop body: secure_filename(f.filename or "file.pdf") or "file.pdf"
SavedName(original) == OrFilePdf(secure_filename(OrFilePdf(original)))

\* s.endswith(suffix)
EndsWith(s, suffix) ==
    Len(s) >= Len(suffix)
    /\ SubSeq(s, Len(s) - Len(suffix) + 1, Len(s)) = suffix

\* a filename that passes every test
AnyName(filename) == TRUE

\* filename.lower().endswith(".pdf")
IsPdfName(filename) == EndsWith(Lower(filename), <<".", "p", "d", "f">>)

\* the three tables after the for loop of convert_pdfs_to_excel
EmptyTables == [rows |-> <<>>, totals |-> <<>>, log |-> <<>>]

Extended(acc, o) ==
    [rows |-> acc.rows \o o.rows,
     totals |-> acc.totals \o o.totals,
     log |-> acc.log \o o.log]

RECURSIVE RunBatch(_, _, _)
RunBatch(paths, k, acc) ==
    IF k > Len(paths) THEN acc
    ELSE RunBatch(paths, k + 1, Extended(acc, FileOutcome(paths[k])))

\* the workbook convert_pdfs_to_excel writes from the three tables
Workbook(t) ==
    [COGS |-> t.rows,
     InvoiceTotals |->
         [r \in 1..Len(t.totals) |-> TotalsSheetRow(t.rows, t.totals[r])],
     Log |-> t.log]

\* the end of convert_pdfs_to_excel: None, an exception of the writer when
\* the output directory cannot be written, or the path of the workbook
Returned(t, writable) ==
    IF NothingExtracted(t.rows, t.totals) THEN [raised |-> FALSE, file |-> None]
    ELSE IF ~writable THEN [raised |-> TRUE, file |-> None]
    ELSE [raised |-> FALSE, file |-> Some(Workbook(t))]

\* convert_pdfs_to_excel(pdf_paths, output_dir) as the handler sees it
convert_pdfs_to_excel(paths, writable) ==
    Returned(RunBatch(paths, 1, EmptyTables), writable)

\* the answer of the handler after the call: lines 58 to 75
Answer(c) ==
    IF c.raised THEN [status |-> 500, file |-> None]
    ELSE IF c.file = None THEN [status |-> 500, file |-> None]
    ELSE [status |-> 200, file |-> c.file]

NAME_A == <<"a", ".", "p", "d", "f">>
NAME_UPPER == <<"B", ".", "P", "D", "F">>
NAME_PATH == <<".", ".", "/", "c", " ", "d", ".", "p", "d", "f">>
NAME_EMPTY == <<>>
NAME_TXT == <<"n", "o", "t", "e", "s", ".", "t", "x", "t">>
NAME_DOT == <<".", "p", "d", "f">>
NAME_WIDE == <<NON_ASCII, ".", "p", "d", "f">>

\* an upload: the filename the client sent, and what the saved file holds
Uploads ==
    [filename : {NAME_A, NAME_UPPER, NAME_PATH, NAME_EMPTY},
     opens : {TRUE}, texts : {DOC_OK}]
    \cup [filename : {NAME_A, NAME_UPPER, NAME_PATH, NAME_EMPTY},
          opens : {FALSE}, texts : {<<>>}]
    \cup [filename : {NAME_TXT, NAME_DOT, NAME_WIDE},
          opens : {TRUE}, texts : {DOC_OK}]

GOOD_UPLOAD == [filename |-> NAME_A, opens |-> TRUE, texts |-> DOC_OK]

BAD_UPLOAD == [filename |-> NAME_TXT, opens |-> TRUE, texts |-> DOC_OK]

\* requests at the limit of MAX_FILES_PER_UPLOAD and one above it
LongRequests ==
    {[k \in 1..MAX_FILES_PER_UPLOAD |-> GOOD_UPLOAD],
     [k \in 1..MAX_FILES_PER_UPLOAD |->
         IF k = MAX_FILES_PER_UPLOAD THEN BAD_UPLOAD ELSE GOOD_UPLOAD],
     [k \in 1..(MAX_FILES_PER_UPLOAD + 1) |-> GOOD_UPLOAD],
     [k \in 1..(MAX_FILES_PER_UPLOAD + 1) |->
         IF k = 1 THEN BAD_UPLOAD ELSE GOOD_UPLOAD]}

Requests == SeqsUpTo(Uploads, MaxUploads) \cup LongRequests

\* the file a saved path holds when convert_pdfs_to_excel opens it: the last
\* upload saved under that name
Stored(k) ==
    files[Highest({j \in 1..Len(saved) : saved[j] = saved[k]})]

SavedPaths ==
    [k \in 1..Len(saved) |->
        [name |-> saved[k], opens |-> Stored(k).opens, texts |-> Stored(k).texts]]

\* not files or files[0].filename == ""
NoFileSelected(fs) == IF fs = <<>> THEN TRUE ELSE fs[1].filename = <<>>

HandlerInit ==
    /\ files \in Requests
    /\ disk_ok \in BOOLEAN
    /\ saved = <<>>
    /\ invoked = FALSE
    /\ response = None
    /\ hpc = "recv"
    /\ ScanIdle /\ PriceIdle /\ TotalIdle /\ BatchIdle /\ fpc = "idle"
    /\ EquivIdle

\* if not files or files[0].filename == "": return 400
RejectEmpty ==
    /\ hpc = "recv"
    /\ NoFileSelected(files)
    /\ response' = Some([status |-> 400, file |-> None])
    /\ hpc' = "done"
    /\ UNCHANGED <<files, disk_ok, saved, invoked>>
    /\ UNCHANGED handlerOthers

\* if len(files) > MAX_FILES_PER_UPLOAD: return 400
RejectTooMany ==
    /\ hpc = "recv"
    /\ ~NoFileSelected(files)
    /\ Len(files) > MAX_FILES_PER_UPLOAD
    /\ response' = Some([status |-> 400, file |-> None])
    /\ hpc' = "done"
    /\ UNCHANGED <<files, disk_ok, saved, invoked>>
    /\ UNCHANGED handlerOthers

\* both tests passed: the temporary directories are made, pdf_paths = []
Accept ==
    /\ hpc = "recv"
    /\ ~NoFileSelected(files)
    /\ Len(files) <= MAX_FILES_PER_UPLOAD
    /\ saved' = <<>>
    /\ hpc' = "saving"
    /\ UNCHANGED <<files, disk_ok, invoked, response>>
    /\ UNCHANGED handlerOthers

\* one iteration of for f in files whose filename is not a PDF's: return 400
RejectType ==
    /\ hpc = "saving"
    /\ Len(saved) < Len(files)
    /\ ~IsPdfName(SavedName(files[Len(saved) + 1].filename))
    /\ response' = Some([status |-> 400, file |-> None])
    /\ hpc' = "done"
    /\ UNCHANGED <<files, disk_ok, saved, invoked>>
    /\ UNCHANGED handlerOthers

\* one iteration of for f in files: f.save(path); pdf_paths.append(path)
SaveFile ==
    /\ hpc = "saving"
    /\ Len(saved) < Len(files)
    /\ IsPdfName(SavedName(files[Len(saved) + 1].filename))
    /\ saved' = Append(saved, SavedName(files[Len(saved) + 1].filename))
    /\ UNCHANGED <<files, disk_ok, invoked, response, hpc>>
    /\ UNCHANGED handlerOthers

\* after the loop: the call of convert_pdfs_to_excel and the answer
Convert ==
    /\ hpc = "saving"
    /\ Len(saved) = Len(files)
    /\ invoked' = TRUE
    /\ response' = Some(Answer(convert_pdfs_to_excel(SavedPaths, disk_ok)))
    /\ hpc' = "done"
    /\ UNCHANGED <<files, disk_ok, saved>>
    /\ UNCHANGED handlerOthers

HandlerNext ==
    RejectEmpty \/ RejectTooMany \/ Accept \/ RejectType \/ SaveFile \/ Convert

SpecHandler == HandlerInit /\ [][HandlerNext]_vars


(***************************************************************************)
(* Both row scanners on the same tokens                                    *)
(***************************************************************************)
\* the date of Excel's serial 0
DATE_EPOCH == <<"1", "8", "9", "9", "/", "1", "2", "/", "3", "0">>

EquivInputs ==
    ScanInputs
    \cup {<<ORD_A, TXN_A, DATE_EPOCH, QTY_A, CANADA, PRICE_A>> \o t : t \in Tails}

EquivInit ==
    /\ etokens \in EquivInputs
    /\ web_rows = None
    /\ cli_rows = None
    /\ fpc = "equiv"
    /\ ScanIdle /\ PriceIdle /\ TotalIdle /\ BatchIdle /\ HandlerIdle

\* both scanners on the same tokens and file name
RunBoth ==
    /\ fpc = "equiv"
    /\ web_rows' = Some(parse_pdf_tokens(etokens, FILE_NAME))
    /\ cli_rows' = Some(cli_parse_pdf_tokens(etokens, FILE_NAME))
    /\ fpc' = "done"
    /\ UNCHANGED etokens
    /\ UNCHANGED equivOthers

EquivNext == RunBoth

SpecEquiv == EquivInit /\ [][EquivNext]_vars

(***************************************************************************)
(* Claims about the row scanner (checked under SpecScan)                   *)
(***************************************************************************)
\* a country marker that starts at k and lies wholly inside [.., row_end)
MarkerAt(toks, k, row_end) ==
    LET t == Lower(clean(At(toks, k)))
    IN  \/ t \in SINGLE_COUNTRIES
        \/ /\ t = <<"u", "n", "i", "t", "e", "d">>
           /\ k + 1 < row_end
           /\ Lower(clean(At(toks, k + 1))) = <<"s", "t", "a", "t", "e", "s">>

MarkerEnd(toks, k) ==
    IF Lower(clean(At(toks, k))) \in SINGLE_COUNTRIES THEN k ELSE k + 1

WindowMarkers(toks, a, row_end) ==
    {k \in (a + 3)..(row_end - 1) : MarkerAt(toks, k, row_end)}

\* the bare-quantity tokens between the anchor tokens and position c
QtyTokens(toks, a, c) == {j \in (a + 3)..(c - 1) : IsBareQuantity(At(toks, j))}

\* the price-candidate tokens of [from, row_end)
PriceTokens(toks, from, row_end) ==
    {j \in from..(row_end - 1) : looks_like_price(At(toks, j))}

\* the row window [a, row_end) holds, in this order, the anchor, one or more
\* bare quantities, a country marker and one or more price candidates
WellFormedRow(toks, a, row_end) ==
    /\ WindowMarkers(toks, a, row_end) # {}
    /\ LET c == Lowest(WindowMarkers(toks, a, row_end))
       IN  /\ QtyTokens(toks, a, c) # {}
           /\ PriceTokens(toks, MarkerEnd(toks, c) + 1, row_end) # {}

\* the LineItem C1 promises for a well-formed row
PromisedQty(toks, a, row_end) ==
    LET c == Lowest(WindowMarkers(toks, a, row_end))
    IN  IntOf(clean(At(toks, Highest(QtyTokens(toks, a, c)))))

PromisedCost(toks, a, row_end) ==
    LET c == Lowest(WindowMarkers(toks, a, row_end))
    IN  FloatCents(clean(At(toks,
            Highest(PriceTokens(toks, MarkerEnd(toks, c) + 1, row_end)))))

\* C1: every well-formed row (anchor, bare quantities, country marker, price
\* candidates, in this order) yields a LineItem whose Qty is the bare quantity
\* nearest before the country marker and whose Cost is the last price
\* candidate after it; in particular the scanner does not raise on such a row.
C1_WellFormedRowEmitted ==
    /\ \A k \in 1..Len(trace) :
          WellFormedRow(tokens, trace[k].anchor, trace[k].row_end)
          => /\ trace[k].item # None
             /\ Val(trace[k].item).Qty
                  = Some(PromisedQty(tokens, trace[k].anchor, trace[k].row_end))
             /\ Val(trace[k].item).Cost
                  = PromisedCost(tokens, trace[k].anchor, trace[k].row_end)
    /\ pc = "raised" => ~WellFormedRow(tokens, i, RowEnd(tokens, i))

\* C2: a row is emitted if and only if its transaction number, its date and
\* its cost are all resolved, whatever the 4-digit transaction number; a row
\* with no quantity is emitted with Qty null.
C2_EmittedIffResolved ==
    \A k \in 1..Len(trace) :
        /\ trace[k].item # None
             <=> (/\ trace[k].order4 # None
                  /\ trace[k].date_serial # None
                  /\ trace[k].cost # None)
        /\ (trace[k].item # None /\ trace[k].qty = None)
             => Val(trace[k].item).Qty = None

\* C4: a row whose window [anchor + 3, row_end) holds no country marker emits
\* no LineItem, whatever quantities and price candidates the window holds.
C4_NoCountryNoItem ==
    \A k \in 1..Len(trace) :
        WindowMarkers(tokens, trace[k].anchor, trace[k].row_end) = {}
        => trace[k].item = None

\* a closed row without a country marker whose other fields all resolve
C4_Witness ==
    \E k \in 1..Len(trace) :
        /\ WindowMarkers(tokens, trace[k].anchor, trace[k].row_end) = {}
        /\ Truthy(trace[k].order4)
        /\ Truthy(trace[k].date_serial)
        /\ QtyTokens(tokens, trace[k].anchor, trace[k].row_end) # {}
        /\ PriceTokens(tokens, trace[k].anchor + 3, trace[k].row_end) # {}
        /\ trace[k].item = None

\* the row_end C10 states for an anchor at a
StatedRowEnd(toks, a) ==
    LET nexts == {j \in (a + 3)..(a + ROW_CAP - 1) : is_row_start(toks, j)}
    IN  IF nexts # {} THEN Lowest(nexts) ELSE Min(Len(toks), a + ROW_CAP)

NoAnchorIn(toks, from, to) == \A p \in from..(to - 1) : ~is_row_start(toks, p)

\* the fields of the LineItem of closed row r come from tokens of [r.anchor, r.row_end)
FieldsInsideWindow(toks, r) ==
    /\ Val(r.item).Order = IntOf(clean(At(toks, r.anchor + 1)))
    /\ Val(r.item).DateSerial
         = excel_serial_from_date(parse_ymd_to_date(clean(At(toks, r.anchor + 2))))
    /\ r.anchor + 3 <= r.country_pos
    /\ r.country_pos <= r.country_end
    /\ r.country_end < r.row_end
    /\ Val(r.item).Qty # None
         => \E j \in (r.anchor + 1)..(r.country_pos - 1) :
               /\ IsBareQuantity(At(toks, j))
               /\ IntOf(clean(At(toks, j))) = Val(Val(r.item).Qty)
    /\ \E j \in (r.country_end + 1)..(r.row_end - 1) :
          /\ looks_like_price(At(toks, j))
          /\ FloatCents(clean(At(toks, j))) = Val(r.item).Cost

\* C10: every row window is [anchor, row_end) with row_end the first anchor at
\* or after anchor + 3 if one lies before anchor + 320 and min(n, anchor + 320)
\* otherwise; the scan resumes at row_end, so windows do not overlap, no anchor
\* between two windows is passed over, and a LineItem's fields come from tokens
\* of its own window.
C10_RowWindows ==
    /\ \A k \in 1..Len(trace) :
          /\ is_row_start(tokens, trace[k].anchor)
          /\ trace[k].row_end = StatedRowEnd(tokens, trace[k].anchor)
          /\ trace[k].row_end >= trace[k].anchor + 3
          /\ trace[k].item # None => FieldsInsideWindow(tokens, trace[k])
    /\ \A k \in 1..(Len(trace) - 1) :
          /\ trace[k + 1].anchor >= trace[k].row_end
          /\ NoAnchorIn(tokens, trace[k].row_end, trace[k + 1].anchor)
    /\ trace # <<>>
         => /\ i >= trace[Len(trace)].row_end
            /\ NoAnchorIn(tokens, trace[Len(trace)].row_end, i)

\* a window closed by the cap with tokens left over, then a later window that
\* emits a LineItem
C10_Witness ==
    /\ Len(trace) >= 2
    /\ trace[1].row_end = trace[1].anchor + ROW_CAP
    /\ trace[1].row_end < Len(tokens)
    /\ trace[2].anchor > trace[1].row_end
    /\ trace[2].item # None

(***************************************************************************)
(* Claims about looks_like_price (checked under SpecPrice)                 *)
(***************************************************************************)
CountOf(s, c) == Cardinality({k \in 1..Len(s) : s[k] = c})

\* exactly four characters, each a digit
FourDigitShape(t) ==
    Len(t) = 4 /\ CountOf(t, ".") = 0 /\ \A k \in 1..4 : IsDigit(t[k])

\* ten or more digits, optionally followed by "_" and one or more digits
OrderIdShape(t) ==
    LET cut == {k \in 1..Len(t) : t[k] = "_"}
        stem == IF cut = {} THEN t ELSE SubSeq(t, 1, Lowest(cut) - 1)
        rest == IF cut = {} THEN <<>> ELSE SubSeq(t, Lowest(cut) + 1, Len(t))
    IN  /\ Len(stem) >= 10
        /\ AllDigits(stem)
        /\ cut # {} => (Len(rest) >= 1 /\ AllDigits(rest))

\* digits, then optionally a point and one or two digits
UnsignedDecimalShape(t) ==
    LET dot == {k \in 1..Len(t) : t[k] = "."}
        whole == IF dot = {} THEN t ELSE SubSeq(t, 1, Lowest(dot) - 1)
        frac == IF dot = {} THEN <<>> ELSE SubSeq(t, Lowest(dot) + 1, Len(t))
    IN  /\ Len(whole) >= 1
        /\ AllDigits(whole)
        /\ AllDigits(frac)
        /\ dot # {} => Len(frac) \in {1, 2}

\* the predicate C9 states
StatedPrice(t) ==
    /\ ~FourDigitShape(t)
    /\ ~OrderIdShape(t)
    /\ UnsignedDecimalShape(t)
    /\ ~(CountOf(t, ".") = 0 /\ FloatCents(t) < 10 * 100)
    /\ FloatCents(t) > 0
    /\ FloatCents(t) <= 100 * PRICE_MAX

\* C9: looks_like_price holds exactly for a cleaned token that is not exactly
\* 4 digits, is not order-id shaped, is an unsigned decimal with at most 2
\* fraction digits, is not an integer under 10, and is worth more than 0 and
\* at most 100000; so a Cost is never taken from a transaction-number-shaped
\* or order-id-shaped token and lies in (0, 100000].
C9_PricePredicate ==
    fpc = "done"
    => /\ Val(price) = StatedPrice(clean(tok))
       /\ Len(priced) = (IF Val(price) THEN 1 ELSE 0)
       /\ \A k \in 1..Len(priced) :
             /\ ~FourDigitShape(clean(tok))
             /\ ~OrderIdShape(clean(tok))
             /\ priced[k].Cost = FloatCents(clean(tok))
             /\ priced[k].Cost > 0
             /\ priced[k].Cost <= 100 * PRICE_MAX

\* a token at the ceiling, wrapped in punctuation, taken as the Cost of a row
C9_Witness ==
    /\ fpc = "done"
    /\ Val(price)
    /\ tok # clean(tok)
    /\ Len(priced) = 1
    /\ priced[1].Cost = 100 * PRICE_MAX

(***************************************************************************)
(* Claims about extract_total_usd (checked under SpecTotal)                *)
(***************************************************************************)
\* the pages that carry text, and the text extract_total_usd is given
TextPages == SelectSeq(pages, LAMBDA t : t # <<>>)

FullText == JoinLines(TextPages)

\* where page k of TextPages starts in FullText, less one
RECURSIVE PageOffset(_)
PageOffset(k) == IF k = 1 THEN 0 ELSE PageOffset(k - 1) + Len(TextPages[k - 1]) + 1

UsdMatches == {p \in 1..Len(FullText) : TotalUsdAt(FullText, p).ok}

AmountMatches == {p \in 1..Len(FullText) : TotalAmountAt(FullText, p).ok}

\* the match m of FullText lies on one page
OnOnePage(m) ==
    \E k \in 1..Len(TextPages) :
        PageOffset(k) < m.at /\ m.to <= PageOffset(k) + Len(TextPages[k])

NoMatchSpansPages ==
    /\ \A p \in UsdMatches : OnOnePage(TotalUsdAt(FullText, p))
    /\ \A p \in AmountMatches : OnOnePage(TotalAmountAt(FullText, p))

UsdPages == {k \in 1..Len(TextPages) : SearchTotalUsd(TextPages[k]).ok}

AmountPages == {k \in 1..Len(TextPages) : SearchTotalAmount(TextPages[k]).ok}

\* the number a matched amount string stands for
AmountOf(group) == FloatOfRaw(RemoveChars(group, {"$", " ", ","}))

\* the amount of page k: of its Total(USD) match, else of its TOTAL AMOUNT match
PageAmount(k) ==
    IF k \in UsdPages THEN AmountOf(SearchTotalUsd(TextPages[k]).group)
    ELSE AmountOf(SearchTotalAmount(TextPages[k]).group)

\* C8 as stated: the first page, in page order, on which either pattern
\* matches decides the total (documents in which no match spans a page break)
C8_EarliestMatchingPage ==
    (fpc = "done" /\ NoMatchSpansPages)
    => IF UsdPages \cup AmountPages = {} THEN total = None
       ELSE total = PageAmount(Lowest(UsdPages \cup AmountPages))

\* C8 (amended): Total(USD) takes precedence over the whole text, the pages
\* joined in page order: when it matches anywhere the total is the amount of
\* its first match, even if TOTAL AMOUNT matches on an earlier page; otherwise
\* the total is the amount of the first TOTAL AMOUNT match; it is absent when
\* neither matches or the amount does not parse.  When no match spans a page
\* break, the deciding match is that of the earliest page matching the pattern.
C8_UsdPrecedence ==
    fpc = "done"
    => /\ UsdMatches # {}
            => total = AmountOf(TotalUsdAt(FullText, Lowest(UsdMatches)).group)
       /\ (UsdMatches = {} /\ AmountMatches # {})
            => total = AmountOf(TotalAmountAt(FullText, Lowest(AmountMatches)).group)
       /\ (UsdMatches = {} /\ AmountMatches = {}) => total = None
       /\ NoMatchSpansPages
            => /\ UsdPages # {}
                    => total = AmountOf(SearchTotalUsd(TextPages[Lowest(UsdPages)]).group)
               /\ (UsdPages = {} /\ AmountPages # {})
                    => total = AmountOf(
                           SearchTotalAmount(TextPages[Lowest(AmountPages)]).group)
               /\ (UsdPages = {} /\ AmountPages = {}) => total = None

\* TOTAL AMOUNT on the first page, Total(USD) on the second, and the total is
\* the second page's amount
C8_Witness ==
    /\ fpc = "done"
    /\ NoMatchSpansPages
    /\ Len(TextPages) = 2
    /\ 1 \in AmountPages /\ 1 \notin UsdPages
    /\ 2 \in UsdPages
    /\ total = PageAmount(2)
    /\ total # PageAmount(1)
    /\ total # None

(***************************************************************************)
(* Claims about convert_pdfs_to_excel (checked under Spec)                 *)
(***************************************************************************)
\* the positions of all_rows that came from the k-th file
RowsOf(k) == {r \in 1..Len(all_rows) : row_src[r] = k}

\* a document whose first row is well formed
HasGoodRow(f) == f.opens /\ f.texts \in {DOC_OK, DOC_CHECK, DOC_ROWS, DOC_BADDATE}

\* C3: an anchor whose date has the YYYY/M/D shape but is no calendar date
\* costs only its own row: a file that opens is never an ERROR file, and the
\* rows of its well-formed anchors are in the line-items table.
C3_BadDateDropsOnlyRow ==
    \A k \in 1..done :
        pdf_paths[k].opens
        => /\ log_rows[k].Status = "OK"
           /\ (HasGoodRow(pdf_paths[k]) => RowsOf(k) # {})

\* C5: after k files, the totals table and the log each hold k entries, the
\* k-th naming the k-th file; a file whose try block raised has Status ERROR,
\* no extracted total and no row in the line-items table; a file whose try
\* block returned has Status OK and all its rows; the loop ends only after the
\* last file.
C5_OneEntryPerFile ==
    /\ Len(totals_rows) = done
    /\ Len(log_rows) = done
    /\ \A k \in 1..done :
          /\ totals_rows[k].File_Name = pdf_paths[k].name
          /\ log_rows[k].File = pdf_paths[k].name
          /\ IF TryFile(pdf_paths[k]).raised
             THEN /\ log_rows[k].Status = "ERROR"
                  /\ totals_rows[k].Total_USD_Extracted = None
                  /\ RowsOf(k) = {}
             ELSE /\ log_rows[k].Status = "OK"
                  /\ Cardinality(RowsOf(k)) = Len(TryFile(pdf_paths[k]).rows)
    /\ (bpc = "done" => done = Len(pdf_paths))
    /\ (bpc = "done" /\ result # None
        => /\ Len(Val(result).InvoiceTotals) = Len(pdf_paths)
           /\ Val(result).Log = log_rows)

\* a batch of two whose first file cannot be opened and whose second file
\* yields a row
C5_Witness ==
    /\ bpc = "done"
    /\ Len(pdf_paths) = 2
    /\ ~pdf_paths[1].opens
    /\ log_rows[1].Status = "ERROR"
    /\ log_rows[2].Status = "OK"
    /\ RowsOf(2) # {}

\* C6: a batch that produced no LineItem and no extracted total returns None,
\* a non-empty batch included.
C6_NothingMeansNone ==
    (/\ bpc = "done"
     /\ all_rows = <<>>
     /\ \A k \in 1..Len(totals_rows) :
           totals_rows[k].Total_USD_Extracted = None)
    => result = None

\* the sum of the costs of the rows of the file named name, in cents
StatedSum(name) ==
    SumCost(SelectSeq(all_rows, LAMBDA x : x.File_Name = name), name)

\* Match as stated: OK below 0.01, CHECK from 0.01, absent without a total
StatedMatch(t) ==
    IF t.Total_USD_Extracted = None THEN None
    ELSE IF Abs(StatedSum(t.File_Name) - Val(t.Total_USD_Extracted)) < 1
         THEN Some("OK")
         ELSE Some("CHECK")

\* C7: in every row of the totals sheet Match is OK when the file's costs and
\* its extracted total differ by less than 0.01, CHECK when a total was
\* extracted and they differ by more, and absent when no total was extracted.
C7_MatchColumn ==
    (bpc = "done" /\ result # None)
    => \A r \in 1..Len(totals_rows) :
          Val(result).InvoiceTotals[r].Match = StatedMatch(totals_rows[r])

(***************************************************************************)
(* Claims about the upload handler (checked under SpecHandler)             *)
(***************************************************************************)
\* the sanitized name ends in .pdf, in either case of the letters
StatedPdfName(n) ==
    /\ Len(n) >= 4
    /\ n[Len(n) - 3] = "."
    /\ n[Len(n) - 2] \in {"p", "P"}
    /\ n[Len(n) - 1] \in {"d", "D"}
    /\ n[Len(n)] \in {"f", "F"}

\* a POST the handler must refuse: no file, too many files, or a file whose
\* sanitized name is not a PDF's
RefusedRequest ==
    \/ files = <<>>
    \/ Len(files) > MAX_FILES_PER_UPLOAD
    \/ \E k \in 1..Len(files) : ~StatedPdfName(SavedName(files[k].filename))

C12_ScannersAgree ==
    (fpc = "done" /\ web_rows # None) => web_rows = cli_rows

(***************************************************************************)
(* Termination of the row scanner (checked under SpecScanLive)             *)
(***************************************************************************)
\* one iteration of the while loop moves the scan position forward: by 1 when
\* it seeks, to row_end >= anchor + 3 when it closes a row
LoopAdvances ==
    (pc = "loop" /\ pc' = "loop")
    => \/ i' = i + 1 /\ trace' = trace
       \/ /\ Len(trace') = Len(trace) + 1
          /\ trace'[Len(trace')].anchor = i
          /\ i' = trace'[Len(trace')].row_end
          /\ i' >= i + 3

\* no position is opened twice, and the rows emitted are at most the anchors
\* opened, which are at most n/3
AnchorsBounded ==
    /\ \A k \in 1..(Len(trace) - 1) : trace[k].anchor < trace[k + 1].anchor
    /\ Len(rows) <= Len(trace)
    /\ 3 * (Len(trace) + (IF pc = "raised" THEN 1 ELSE 0)) <= Len(tokens)
    /\ i <= Len(tokens)

\* C13: parse_pdf_tokens terminates on every finite token sequence: each loop
\* iteration strictly increases the scan position (by 1 while seeking, to
\* row_end >= anchor + 3 after an anchor), no position is opened as an anchor
\* twice, and the LineItems emitted are at most the anchors opened, at most
\* n/3 for n tokens.
C13_ScanTerminates ==
    /\ <>Halted
    /\ [][LoopAdvances]_vars
    /\ []AnchorsBounded

\* a scan that has returned after seeking between two rows, one of them dropped
C13_Witness ==
    /\ pc = "done"
    /\ Len(trace) = 2
    /\ trace[2].anchor > trace[1].row_end
    /\ Len(rows) = 1
    /\ i = Len(tokens)

=============================================================================
